---- MODULE Spec2Model ----
(***************************************************************************)
(* Model of the retrieval strategies of talk_with_me (src/rag_core.py):    *)
(* GeminiRAG (Long Context) and FileSearchRAG (File Search).               *)
(*                                                                         *)
(* The state is the two strategy objects, the remote services they talk   *)
(* to (uploaded files, File Search stores), the local /tmp directory and   *)
(* the frame of the method call in progress.  A method that polls is       *)
(* modelled statement by statement (loop head, sleep, status fetch); every *)
(* other method is one action.  Remote calls either return or raise; the  *)
(* status a remote fetch reports and the time it takes are chosen freely.  *)
(* Time is counted in whole seconds from the moment polling begins.        *)
(***************************************************************************)
EXTENDS Integers, Sequences, FiniteSets

\* ------------------------------------------------------------------ bounds
\* Names the remote file service can assign (files/1 .. files/MaxRemoteFiles).
MaxRemoteFiles == 1
\* Names the remote File Search service can assign to stores.
MaxRemoteStores == 1
\* Seconds the status fetches of one call can take in total.
MaxDelay == 2
\* Files the user can select in the uploader at once.
MaxSelected == 6
\* An upload reaches the remote service while the run of the orchestrator has
\* made fewer remote objects (files and stores) than this.
MaxEarlierObjects == 2
\* Deletes of one reset that raise although the object exists.
MaxFailedDeletes == 1

\* ------------------------------------------------------- program constants
\* rag_core.py:45  timeout_seconds = 60
upload_timeout_seconds == 60
\* rag_core.py:50  time.sleep(2)
upload_sleep_seconds == 2
\* rag_core.py:190  timeout_seconds = 120
index_timeout_seconds == 120
\* app.py:125  len(uploaded_files) > 5
max_files == 5
\* rag_core.py:195  time.sleep(5)
index_sleep_seconds == 5

\* The states a remote file reports (file_obj.state.name).
FileStates == {"PROCESSING", "ACTIVE", "FAILED", "STATE_UNSPECIFIED"}
\* Names of the files a caller uploads (file_name).
FileNames == {"a.txt", "b.pdf"}
\* Values of GOOGLE_API_KEY in the environment; "None" is the unset variable.
ApiKeys == {"None", "", "test_api_key"}
\* rag_core.py:23, 158  the default of GEMINI_MODEL_NAME
DefaultModelName == "gemini-2.5-flash"
\* What os.getenv("GEMINI_MODEL_NAME") can find: "None" when it is not set.
EnvModelNames == {"None", "gemini-2.0-flash"}
\* app.py:15, 74  the two strategies the radio offers
RagModes == {"Long Context", "File Search Tool"}
\* rag_core.py:120  the acknowledgement of the fallback history
Acknowledgement == "Understood. I have processed the document. What would you like to know?"

FileIds == 1..MaxRemoteFiles
StoreIds == 1..MaxRemoteStores
Latencies == 0..MaxDelay

VARIABLES
    gemini_rag,     \* the GeminiRAG object: constructed, api_key, model_name
    fs_rag,         \* the FileSearchRAG object: constructed, api_key, model_name,
                    \*   file_search_store (0 is None), operation
    fs_created,     \* stores created by calls on the current FileSearchRAG object
    remote_files,   \* ids of the files that exist on the remote file service
    files_made,     \* number of file names the service has assigned
    remote_stores,  \* ids of the stores that exist on the File Search service
    stores_made,    \* number of store names the service has assigned
    tmp_files,      \* names of the files that exist under /tmp
    op,             \* the method called last (or in progress)
    pc,             \* where that call is: "loop", "sleep", "get" or "done"
    env_key,        \* the GOOGLE_API_KEY a constructor call found
    target,         \* the remote file the call was made with (0 when none)
    clock,          \* time.time(), in seconds since polling began
    start_time,     \* the local start_time
    file_obj,       \* the local file_obj: name (0 before upload), state
    tmp_path,       \* the local tmp_path while the file it names is in use
    sleeps,         \* time.sleep calls made by the call
    fetches,        \* status fetches (get_file / operations.get) made by the call
    seen_processing,\* statuses observed by the call that were not terminal
    last_latency,   \* seconds the last status fetch of the call took
    net_calls,      \* remote calls made by the call
    configure_calls,\* remote clients configured by the call
    delete_calls,   \* remote delete calls made by the call
    errors_logged,  \* logger.error calls made by the call
    remote_raised,  \* whether a remote call made by the call raised
    uncached_models,\* uncached GenerativeModel objects built by the call
    result,         \* how the call ended: "pending", "ok" or the error raised
    chat,           \* the conversation handle the call returned
    reply,          \* what a call of the File Search handle did: stream, the
                    \*   generate calls made, the store they were bound to, the
                    \*   text of the response and the chunks the caller received
    env_model,      \* the GEMINI_MODEL_NAME of the process environment
    rag_mode,       \* st.session_state.rag_mode
    rag_client,     \* st.session_state.rag_client: the class of the object
    uploaded_files, \* st.session_state.uploaded_files: remote ids, in order
    chat_session,   \* st.session_state.chat_session (NoChat is None)
    app_op,         \* the handler of app.py that ran last, and how it ended
    session,        \* what the uploads since the last reset created remotely
    ended,          \* what the reset (or exit) that ran last found and deleted
    chat_inits      \* the documents the handler that ran last called
                    \*   GeminiRAG.initialize_chat with, one entry per call

poll_vars == <<clock, start_time, file_obj, tmp_path, sleeps, fetches,
               seen_processing, last_latency>>
count_vars == <<net_calls, configure_calls, delete_calls, errors_logged,
                uncached_models>>
remote_vars == <<remote_files, files_made, remote_stores, stores_made>>
call_vars == <<op, pc, env_key, target, poll_vars, count_vars, remote_raised,
               result, chat, reply>>
app_vars == <<rag_mode, rag_client, uploaded_files, chat_session, app_op,
              session, ended, chat_inits>>
vars == <<gemini_rag, fs_rag, fs_created, remote_vars, tmp_files, call_vars,
          env_model, app_vars>>

NoGemini == [constructed |-> FALSE, api_key |-> "None", model_name |-> ""]
NoFileSearch == [constructed |-> FALSE, api_key |-> "None", model_name |-> "",
                 file_search_store |-> 0, operation |-> "None"]
NoFile == [name |-> 0, state |-> "STATE_UNSPECIFIED"]
NoChat == [model |-> "None", cached_contents |-> <<>>, store |-> 0,
           history |-> <<>>]
NoReply == [stream |-> FALSE, generate_calls |-> 0, store |-> 0, text |-> "",
            chunks |-> <<>>]
NoSession == [files |-> {}, stores |-> {}, failed |-> FALSE]
NoReset == [by |-> "None", mode |-> "None", client |-> "None",
            uploaded |-> <<>>, files |-> {}, stores |-> {}, failed |-> FALSE,
            deleted_files |-> {}, deleted_stores |-> {}]

\* Before any call: no object constructed, nothing on the remote services, the
\* session state of app.py:14-29.
Start ==
    /\ gemini_rag = NoGemini
    /\ fs_rag = NoFileSearch
    /\ fs_created = {}
    /\ remote_files = {} /\ files_made = 0
    /\ remote_stores = {} /\ stores_made = 0
    /\ tmp_files = {}
    /\ op = "None" /\ pc = "done" /\ env_key = "None" /\ target = 0
    /\ clock = 0 /\ start_time = 0
    /\ file_obj = NoFile /\ tmp_path = "None"
    /\ sleeps = 0 /\ fetches = 0 /\ seen_processing = 0
    /\ last_latency = 0
    /\ net_calls = 0 /\ configure_calls = 0 /\ delete_calls = 0
    /\ errors_logged = 0 /\ remote_raised = FALSE
    /\ uncached_models = 0
    /\ result = "None"
    /\ chat = NoChat
    /\ reply = NoReply
    /\ rag_mode = "Long Context"
    /\ rag_client = "None"
    /\ uploaded_files = <<>>
    /\ chat_session = NoChat
    /\ app_op = [name |-> "None", result |-> "ok"]
    /\ session = NoSession
    /\ ended = NoReset
    /\ chat_inits = <<>>

\* The methods of rag_core.py are called in an environment that does not set
\* GEMINI_MODEL_NAME, as in test_rag_core.py:7-10.
Init == Start /\ env_model = "None"

\* app.py is started in an environment that can set GEMINI_MODEL_NAME.
InitApp == Start /\ env_model \in EnvModelNames

\* A method can be called when no call is in progress.
Idle == pc = "done"

\* The frame of a call that does not poll.
NoPolling ==
    /\ clock' = 0 /\ start_time' = 0
    /\ file_obj' = NoFile /\ tmp_path' = "None"
    /\ sleeps' = 0 /\ fetches' = 0 /\ seen_processing' = 0
    /\ last_latency' = 0

\* A call that is not a call of the File Search handle.
NoMessage == reply' = NoReply

\* ------------------------------------------------------------ constructors
\* Mutant of CredentialAbsent: the check of the credential is left out.
CredentialNeverChecked(api_key) == FALSE

\* rag_core.py:19, 152  `not self.api_key`: the variable is unset or empty.
CredentialAbsent(api_key) == api_key \in {"None", ""}

\* rag_core.py:23, 158  os.getenv("GEMINI_MODEL_NAME", "gemini-2.5-flash")
ModelName(env) == IF env = "None" THEN DefaultModelName ELSE env

\* rag_core.py:17-23  GeminiRAG.__init__
GeminiRAG_init ==
    /\ Idle
    /\ \E api_key \in ApiKeys :
        /\ op' = "GeminiRAG" /\ env_key' = api_key /\ pc' = "done"
        /\ target' = 0 /\ remote_raised' = FALSE
        /\ net_calls' = 0 /\ delete_calls' = 0 /\ errors_logged' = 0
        /\ uncached_models' = 0
        /\ chat' = NoChat
        /\ IF CredentialAbsent(api_key)
           THEN /\ result' = "MissingCredential"
                /\ configure_calls' = 0
                /\ UNCHANGED gemini_rag
           ELSE /\ result' = "ok"
                /\ configure_calls' = 1
                /\ gemini_rag' = [constructed |-> TRUE, api_key |-> api_key,
                                  model_name |-> ModelName(env_model)]
    /\ NoPolling
    /\ UNCHANGED <<fs_rag, fs_created, remote_vars, tmp_files>>
    /\ NoMessage
    /\ UNCHANGED <<env_model, app_vars>>

\* rag_core.py:147-160  FileSearchRAG.__init__
FileSearchRAG_init ==
    /\ Idle
    /\ \E api_key \in ApiKeys :
        /\ op' = "FileSearchRAG" /\ env_key' = api_key /\ pc' = "done"
        /\ target' = 0 /\ remote_raised' = FALSE
        /\ net_calls' = 0 /\ delete_calls' = 0 /\ errors_logged' = 0
        /\ uncached_models' = 0
        /\ chat' = NoChat
        /\ IF CredentialAbsent(api_key)
           THEN /\ result' = "MissingCredential"
                /\ configure_calls' = 0
                /\ UNCHANGED <<fs_rag, fs_created>>
           ELSE /\ result' = "ok"
                /\ configure_calls' = 1
                /\ fs_rag' = [constructed |-> TRUE, api_key |-> api_key,
                              model_name |-> ModelName(env_model),
                              file_search_store |-> 0, operation |-> "None"]
                /\ fs_created' = {}
    /\ NoPolling
    /\ UNCHANGED <<gemini_rag, remote_vars, tmp_files>>
    /\ NoMessage
    /\ UNCHANGED <<env_model, app_vars>>

\* ------------------------------------------------- local transient storage
\* rag_core.py:31-32, 168-169  open(tmp_path, "wb") and write
WriteTmp(files, path) == files \cup {path}

\* Mutant of Unlink: the transient copy is left in place.
UnlinkSkipped(files, path) == files

\* rag_core.py:39-40, 203-204  if tmp_path.exists(): tmp_path.unlink()
Unlink(files, path) == files \ {path}

\* ------------------------------------------------------------ poll helpers
\* Mutant of TimedOut: the budget is overrun by ten seconds before it counts.
TimedOutLate(now, start, timeout_seconds) == now - start > timeout_seconds + 10

\* Mutant of TimedOut: the budget counts as exceeded when it is just reached.
TimedOutEarly(now, start, timeout_seconds) == now - start >= timeout_seconds

\* rag_core.py:48, 193  time.time() - start_time > timeout_seconds
TimedOut(now, start, timeout_seconds) == now - start > timeout_seconds

\* Mutant of UploadExit: the two checks after the loop in the other order.
UploadExitChecksSwapped(state) ==
    IF state # "ACTIVE" THEN "UnexpectedState"
    ELSE IF state = "FAILED" THEN "ProcessingFailed"
    ELSE "ok"

\* Mutant of UploadExit: the defensive check of line 56 is left out.
UploadExitWithoutDefensiveCheck(state) ==
    IF state = "FAILED" THEN "ProcessingFailed" ELSE "ok"

\* rag_core.py:53-61  what upload_file does once the loop is left
UploadExit(state) ==
    IF state = "FAILED" THEN "ProcessingFailed"
    ELSE IF state # "ACTIVE" THEN "UnexpectedState"
    ELSE "ok"

\* Mutant of StillProcessing: the loop runs until the file is ACTIVE.
StillNotActive(state) == state # "ACTIVE"

\* rag_core.py:47  file_obj.state.name == "PROCESSING"
StillProcessing(state) == state = "PROCESSING"

\* The number of observed statuses that were not terminal, after one more.
Seen(n, status) == IF status \in {"PROCESSING", "pending"} THEN n + 1 ELSE n

\* A status fetch that takes `latency` seconds.  The fetches of one call take
\* MaxDelay seconds in total: the time the call did not sleep is at most that.
FetchTakes(latency, sleep_seconds) ==
    /\ (clock + latency) - start_time - sleeps * sleep_seconds <= MaxDelay
    /\ last_latency' = latency
    /\ clock' = clock + latency

\* ------------------------------------------------- GeminiRAG.upload_file
\* rag_core.py:25-45  write the transient copy, upload it, delete the copy and
\* start the clock of the poll loop.
upload_file ==
    /\ Idle
    /\ gemini_rag.constructed
    /\ \E file_name \in FileNames, uploaded \in BOOLEAN, state \in FileStates :
        /\ op' = "upload_file" /\ env_key' = "None"
        /\ tmp_files' = Unlink(WriteTmp(tmp_files, file_name), file_name)
        /\ tmp_path' = "None"
        /\ net_calls' = 1
        /\ remote_raised' = ~uploaded
        /\ IF uploaded
           THEN /\ files_made < MaxRemoteFiles
                /\ files_made' = files_made + 1
                /\ remote_files' = remote_files \cup {files_made + 1}
                /\ file_obj' = [name |-> files_made + 1, state |-> state]
                /\ seen_processing' = Seen(0, state)
                /\ pc' = "loop" /\ result' = "pending"
           ELSE \* genai.upload_file raised
                /\ state = "PROCESSING"
                /\ UNCHANGED <<remote_files, files_made>>
                /\ file_obj' = NoFile
                /\ seen_processing' = 0
                /\ pc' = "done" /\ result' = "RemoteError"
    /\ clock' = 0 /\ start_time' = clock'
    /\ target' = 0
    /\ sleeps' = 0 /\ fetches' = 0 /\ last_latency' = 0
    /\ configure_calls' = 0 /\ delete_calls' = 0 /\ errors_logged' = 0
    /\ uncached_models' = 0
    /\ chat' = NoChat
    /\ UNCHANGED <<gemini_rag, fs_rag, fs_created, remote_stores, stores_made>>
    /\ NoMessage
    /\ UNCHANGED <<env_model, app_vars>>

\* Mutant of upload_file_loop: a failed upload deletes the remote file.
upload_file_loop_deleting ==
    /\ op = "upload_file" /\ pc = "loop"
    /\ IF StillProcessing(file_obj.state)
       THEN IF TimedOut(clock, start_time, upload_timeout_seconds)
            THEN pc' = "done" /\ result' = "Timeout"
            ELSE pc' = "sleep" /\ UNCHANGED result
       ELSE pc' = "done" /\ result' = UploadExit(file_obj.state)
    /\ IF result' \in {"Timeout", "ProcessingFailed", "UnexpectedState"}
       THEN /\ remote_files' = remote_files \ {file_obj.name}
            /\ delete_calls' = 1 /\ net_calls' = net_calls + 1
       ELSE UNCHANGED <<remote_files, delete_calls, net_calls>>
    /\ UNCHANGED <<gemini_rag, fs_rag, fs_created, files_made, remote_stores,
                   stores_made, tmp_files, op, env_key, target, poll_vars,
                   configure_calls, errors_logged, uncached_models,
                   remote_raised, chat, reply>>
    /\ UNCHANGED <<env_model, app_vars>>

\* rag_core.py:47-49, 53-61  the loop head and the code after the loop
upload_file_loop ==
    /\ op = "upload_file" /\ pc = "loop"
    /\ IF StillProcessing(file_obj.state)
       THEN IF TimedOut(clock, start_time, upload_timeout_seconds)
            THEN pc' = "done" /\ result' = "Timeout"
            ELSE pc' = "sleep" /\ UNCHANGED result
       ELSE pc' = "done" /\ result' = UploadExit(file_obj.state)
    /\ UNCHANGED <<gemini_rag, fs_rag, fs_created, remote_vars, tmp_files, op,
                   env_key, target, poll_vars, count_vars, remote_raised, chat>>
    /\ UNCHANGED reply
    /\ UNCHANGED <<env_model, app_vars>>

\* rag_core.py:50  time.sleep(2)
upload_file_sleep ==
    /\ op = "upload_file" /\ pc = "sleep"
    /\ clock' = clock + upload_sleep_seconds
    /\ sleeps' = sleeps + 1
    /\ pc' = "get"
    /\ UNCHANGED <<gemini_rag, fs_rag, fs_created, remote_vars, tmp_files, op,
                   env_key, target, start_time, file_obj, tmp_path, fetches,
                   seen_processing, last_latency, count_vars,
                   remote_raised, result, chat>>
    /\ UNCHANGED reply
    /\ UNCHANGED <<env_model, app_vars>>

\* rag_core.py:51  file_obj = genai.get_file(file_obj.name)
upload_file_get ==
    /\ op = "upload_file" /\ pc = "get"
    /\ \E latency \in Latencies, fetched \in BOOLEAN, state \in FileStates :
        /\ FetchTakes(latency, upload_sleep_seconds)
        /\ fetches' = fetches + 1
        /\ net_calls' = net_calls + 1
        /\ remote_raised' = ~fetched
        /\ IF fetched
           THEN /\ file_obj' = [file_obj EXCEPT !.state = state]
                /\ seen_processing' = Seen(seen_processing, state)
                /\ pc' = "loop" /\ UNCHANGED result
           ELSE \* genai.get_file raised
                /\ state = "PROCESSING"
                /\ UNCHANGED <<file_obj, seen_processing>>
                /\ pc' = "done" /\ result' = "RemoteError"
    /\ UNCHANGED <<gemini_rag, fs_rag, fs_created, remote_vars, tmp_files, op,
                   env_key, target, start_time, tmp_path, sleeps, configure_calls,
                   delete_calls, errors_logged, uncached_models, chat>>
    /\ UNCHANGED reply
    /\ UNCHANGED <<env_model, app_vars>>

\* --------------------------------- FileSearchRAG.create_and_upload_file
\* rag_core.py:192  not self.operation.done
NotDone(operation) == operation # "done"

\* rag_core.py:162-190  write the transient copy, create the store, upload
\* the file into it and start the clock of the poll loop; the finally clause
\* (201-204) deletes the copy when a remote call raises.
create_and_upload_file ==
    /\ Idle
    /\ fs_rag.constructed
    /\ \E file_name \in FileNames, created \in BOOLEAN, uploaded \in BOOLEAN,
          operation \in {"pending", "done"} :
        /\ op' = "create_and_upload_file" /\ env_key' = "None"
        /\ remote_raised' = ~(created /\ uploaded)
        /\ IF created
           THEN /\ stores_made < MaxRemoteStores
                /\ stores_made' = stores_made + 1
                /\ remote_stores' = remote_stores \cup {stores_made + 1}
                /\ fs_created' = fs_created \cup {stores_made + 1}
                /\ IF uploaded
                   THEN /\ fs_rag' = [fs_rag EXCEPT
                                        !.file_search_store = stores_made + 1,
                                        !.operation = operation]
                        /\ seen_processing' = Seen(0, operation)
                        /\ tmp_files' = WriteTmp(tmp_files, file_name)
                        /\ tmp_path' = file_name
                        /\ net_calls' = 2
                        /\ pc' = "loop" /\ result' = "pending"
                   ELSE \* upload_to_file_search_store raised
                        /\ operation = "pending"
                        /\ fs_rag' = [fs_rag EXCEPT
                                        !.file_search_store = stores_made + 1]
                        /\ seen_processing' = 0
                        /\ tmp_files' = Unlink(WriteTmp(tmp_files, file_name), file_name)
                        /\ tmp_path' = "None"
                        /\ net_calls' = 2
                        /\ pc' = "done" /\ result' = "RemoteError"
           ELSE \* file_search_stores.create raised
                /\ ~uploaded /\ operation = "pending"
                /\ UNCHANGED <<fs_rag, fs_created, remote_stores, stores_made>>
                /\ seen_processing' = 0
                /\ tmp_files' = Unlink(WriteTmp(tmp_files, file_name), file_name)
                /\ tmp_path' = "None"
                /\ net_calls' = 1
                /\ pc' = "done" /\ result' = "RemoteError"
    /\ clock' = 0 /\ start_time' = clock'
    /\ file_obj' = NoFile
    /\ target' = 0
    /\ sleeps' = 0 /\ fetches' = 0 /\ last_latency' = 0
    /\ configure_calls' = 0 /\ delete_calls' = 0 /\ errors_logged' = 0
    /\ uncached_models' = 0
    /\ chat' = NoChat
    /\ UNCHANGED <<gemini_rag, remote_files, files_made>>
    /\ NoMessage
    /\ UNCHANGED <<env_model, app_vars>>

\* rag_core.py:192-194, 198-204  the loop head, the return and the finally
create_and_upload_file_loop ==
    /\ op = "create_and_upload_file" /\ pc = "loop"
    /\ IF NotDone(fs_rag.operation)
       THEN IF TimedOut(clock, start_time, index_timeout_seconds)
            THEN /\ pc' = "done" /\ result' = "Timeout"
                 /\ tmp_files' = Unlink(tmp_files, tmp_path)
                 /\ tmp_path' = "None"
            ELSE /\ pc' = "sleep"
                 /\ UNCHANGED <<result, tmp_files, tmp_path>>
       ELSE /\ pc' = "done" /\ result' = "ok"
            /\ tmp_files' = Unlink(tmp_files, tmp_path)
            /\ tmp_path' = "None"
    /\ UNCHANGED <<gemini_rag, fs_rag, fs_created, remote_vars, op, env_key, target,
                   clock, start_time, file_obj, sleeps, fetches,
                   seen_processing, last_latency, count_vars, remote_raised, chat>>
    /\ UNCHANGED reply
    /\ UNCHANGED <<env_model, app_vars>>

\* rag_core.py:195  time.sleep(5)
create_and_upload_file_sleep ==
    /\ op = "create_and_upload_file" /\ pc = "sleep"
    /\ clock' = clock + index_sleep_seconds
    /\ sleeps' = sleeps + 1
    /\ pc' = "get"
    /\ UNCHANGED <<gemini_rag, fs_rag, fs_created, remote_vars, tmp_files, op,
                   env_key, target, start_time, file_obj, tmp_path, fetches,
                   seen_processing, last_latency, count_vars,
                   remote_raised, result, chat>>
    /\ UNCHANGED reply
    /\ UNCHANGED <<env_model, app_vars>>

\* rag_core.py:196  self.operation = self.client.operations.get(self.operation)
create_and_upload_file_get ==
    /\ op = "create_and_upload_file" /\ pc = "get"
    /\ \E latency \in Latencies, fetched \in BOOLEAN,
          operation \in {"pending", "done"} :
        /\ FetchTakes(latency, index_sleep_seconds)
        /\ fetches' = fetches + 1
        /\ net_calls' = net_calls + 1
        /\ remote_raised' = ~fetched
        /\ IF fetched
           THEN /\ fs_rag' = [fs_rag EXCEPT !.operation = operation]
                /\ seen_processing' = Seen(seen_processing, operation)
                /\ pc' = "loop"
                /\ UNCHANGED <<result, tmp_files, tmp_path>>
           ELSE \* operations.get raised: the finally clause runs
                /\ operation = "pending"
                /\ UNCHANGED <<fs_rag, seen_processing>>
                /\ pc' = "done" /\ result' = "RemoteError"
                /\ tmp_files' = Unlink(tmp_files, tmp_path)
                /\ tmp_path' = "None"
    /\ UNCHANGED <<gemini_rag, fs_created, remote_vars, op, env_key, target,
                   start_time, file_obj, sleeps, configure_calls, delete_calls,
                   errors_logged, uncached_models, chat>>
    /\ UNCHANGED reply
    /\ UNCHANGED <<env_model, app_vars>>

\* ------------------------------------------------ GeminiRAG.initialize_chat
\* model.start_chat(history=...): the conversation handle
StartChat(model, cached_contents, history) ==
    [model |-> model, cached_contents |-> cached_contents, store |-> 0,
     history |-> history]

\* rag_core.py:113-122  initial_history
InitialHistory(doc) ==
    << [role |-> "user", parts |-> <<[file |-> doc, text |-> ""]>>],
       [role |-> "model", parts |-> <<[file |-> 0, text |-> Acknowledgement]>>] >>

\* Mutant of CachedChat: the document is sent again in the history.
CachedChatResendsDocument(doc) == StartChat("cached", <<doc>>, InitialHistory(doc))

\* Mutant of FallbackChat: the fallback falls through to start_chat(history=[]).
FallbackChatFallsThrough(doc) == StartChat("uncached", <<>>, <<>>)

\* rag_core.py:76-84, 129-130  the cache was created: chat on the cached model
CachedChat(doc) == StartChat("cached", <<doc>>, <<>>)

\* rag_core.py:86-125  cache creation raised: chat on the uncached model
FallbackChat(doc) == StartChat("uncached", <<>>, InitialHistory(doc))

\* rag_core.py:63-130  GeminiRAG.initialize_chat(file_obj).  The cache can be
\* created only over a file that exists remotely, and its creation can raise
\* for any other reason too.  Building a model object and starting a chat on
\* it are local constructions.
initialize_chat ==
    /\ Idle
    /\ gemini_rag.constructed
    /\ \E doc \in 1..files_made, cache_created \in BOOLEAN :
        /\ cache_created => doc \in remote_files
        /\ op' = "initialize_chat" /\ env_key' = "None" /\ target' = doc
        /\ pc' = "done" /\ result' = "ok"
        /\ net_calls' = 1
        /\ remote_raised' = ~cache_created
        /\ IF cache_created
           THEN chat' = CachedChat(doc) /\ uncached_models' = 0
           ELSE chat' = FallbackChat(doc) /\ uncached_models' = 1
    /\ NoPolling
    /\ configure_calls' = 0 /\ delete_calls' = 0 /\ errors_logged' = 0
    /\ UNCHANGED <<gemini_rag, fs_rag, fs_created, remote_vars, tmp_files>>
    /\ NoMessage
    /\ UNCHANGED <<env_model, app_vars>>

\* ------------------------------------------------------------------ cleanup
\* Mutant of CleanupResult: the exception of the delete call is not caught.
CleanupResultUncaught(delete_raised) ==
    IF delete_raised THEN "RemoteError" ELSE "ok"

\* rag_core.py:136-140, 247-256  try: delete ... except Exception: logger.error
CleanupResult(delete_raised) ==
    IF delete_raised THEN "ok"   \* caught and logged
    ELSE "ok"

\* A remote delete raises when the resource is already gone, and can raise
\* for any other reason while the resource stays.
DeleteRaises(exists, failed) == ~exists \/ failed

\* rag_core.py:132-140  GeminiRAG.cleanup_file(file_name)
cleanup_file ==
    /\ Idle
    /\ gemini_rag.constructed
    /\ \E name \in FileIds, failed \in BOOLEAN :
        /\ op' = "cleanup_file" /\ env_key' = "None" /\ target' = name
        /\ pc' = "done"
        /\ net_calls' = 1 /\ delete_calls' = 1
        /\ remote_raised' = DeleteRaises(name \in remote_files, failed)
        /\ result' = CleanupResult(DeleteRaises(name \in remote_files, failed))
        /\ IF DeleteRaises(name \in remote_files, failed)
           THEN errors_logged' = 1 /\ UNCHANGED remote_files
           ELSE errors_logged' = 0 /\ remote_files' = remote_files \ {name}
    /\ NoPolling
    /\ configure_calls' = 0 /\ uncached_models' = 0
    /\ chat' = NoChat
    /\ UNCHANGED <<gemini_rag, fs_rag, fs_created, files_made, remote_stores,
                   stores_made, tmp_files>>
    /\ NoMessage
    /\ UNCHANGED <<env_model, app_vars>>

\* rag_core.py:242-256  FileSearchRAG.cleanup_store()
cleanup_store ==
    /\ Idle
    /\ fs_rag.constructed
    /\ \E failed \in BOOLEAN :
        /\ op' = "cleanup_store" /\ env_key' = "None" /\ target' = 0
        /\ pc' = "done"
        /\ IF fs_rag.file_search_store # 0
           THEN /\ net_calls' = 1 /\ delete_calls' = 1
                /\ remote_raised' =
                      DeleteRaises(fs_rag.file_search_store \in remote_stores, failed)
                /\ result' = CleanupResult(
                      DeleteRaises(fs_rag.file_search_store \in remote_stores, failed))
                /\ IF DeleteRaises(fs_rag.file_search_store \in remote_stores, failed)
                   THEN errors_logged' = 1 /\ UNCHANGED remote_stores
                   ELSE /\ errors_logged' = 0
                        /\ remote_stores' = remote_stores \ {fs_rag.file_search_store}
           ELSE /\ ~failed
                /\ net_calls' = 0 /\ delete_calls' = 0 /\ errors_logged' = 0
                /\ remote_raised' = FALSE
                /\ result' = "ok"
                /\ UNCHANGED remote_stores
    /\ NoPolling
    /\ configure_calls' = 0 /\ uncached_models' = 0
    /\ chat' = NoChat
    /\ UNCHANGED <<gemini_rag, fs_rag, fs_created, remote_files, files_made,
                   stores_made, tmp_files>>
    /\ NoMessage
    /\ UNCHANGED <<env_model, app_vars>>

\* -------------------------------------------- FileSearchRAG.initialize_chat
\* Mutant of StoreMissing: the precondition is not checked.
StoreNeverMissing(file_search_store) == FALSE

\* rag_core.py:211  not self.file_search_store
StoreMissing(file_search_store) == file_search_store = 0

\* rag_core.py:217-240  the closure send_message, bound to the store
SendMessageHandle(file_search_store) ==
    [model |-> "file_search", cached_contents |-> <<>>,
     store |-> file_search_store, history |-> <<>>]

\* rag_core.py:206-240  FileSearchRAG.initialize_chat()
fs_initialize_chat ==
    /\ Idle
    /\ fs_rag.constructed
    /\ op' = "fs_initialize_chat" /\ env_key' = "None" /\ target' = 0
    /\ pc' = "done"
    /\ IF StoreMissing(fs_rag.file_search_store)
       THEN result' = "PreconditionFailed" /\ chat' = NoChat
       ELSE result' = "ok" /\ chat' = SendMessageHandle(fs_rag.file_search_store)
    /\ NoPolling
    /\ net_calls' = 0 /\ configure_calls' = 0 /\ delete_calls' = 0
    /\ errors_logged' = 0 /\ uncached_models' = 0 /\ remote_raised' = FALSE
    /\ UNCHANGED <<gemini_rag, fs_rag, fs_created, remote_vars, tmp_files>>
    /\ NoMessage
    /\ UNCHANGED <<env_model, app_vars>>

\* ------------------------------------- the File Search handle send_message
\* Texts the generate call can return (response.text).
ResponseTexts == {"", "The document says so."}

\* rag_core.py:232-238  send_message is a generator function: with stream it
\* yields response.text once; without, its `return response` ends the
\* generator, which has then yielded nothing.
SendMessageChunks(stream, text) == IF stream THEN <<text>> ELSE <<>>

\* rag_core.py:217-238  one call of the handle that initialize_chat returned,
\* iterated to its end by the caller (app.py:220).  The store is read from
\* self.file_search_store when the generator runs.
send_message ==
    /\ Idle
    /\ chat.model = "file_search"
    /\ \E stream \in BOOLEAN, generated \in BOOLEAN, text \in ResponseTexts :
        /\ op' = "send_message" /\ env_key' = "None" /\ target' = 0
        /\ pc' = "done"
        /\ net_calls' = 1
        /\ remote_raised' = ~generated
        /\ IF generated
           THEN /\ result' = "ok"
                /\ reply' = [stream |-> stream, generate_calls |-> 1,
                             store |-> fs_rag.file_search_store, text |-> text,
                             chunks |-> SendMessageChunks(stream, text)]
           ELSE \* models.generate_content raised
                /\ text = ""
                /\ result' = "RemoteError"
                /\ reply' = [stream |-> stream, generate_calls |-> 1,
                             store |-> fs_rag.file_search_store, text |-> "",
                             chunks |-> <<>>]
    /\ NoPolling
    /\ configure_calls' = 0 /\ delete_calls' = 0 /\ errors_logged' = 0
    /\ uncached_models' = 0
    /\ UNCHANGED <<gemini_rag, fs_rag, fs_created, remote_vars, tmp_files, chat>>
    /\ UNCHANGED <<env_model, app_vars>>

Next ==
    \/ GeminiRAG_init
    \/ FileSearchRAG_init
    \/ upload_file
    \/ upload_file_loop
    \/ upload_file_sleep
    \/ upload_file_get
    \/ create_and_upload_file
    \/ create_and_upload_file_loop
    \/ create_and_upload_file_sleep
    \/ create_and_upload_file_get
    \/ initialize_chat
    \/ cleanup_file
    \/ fs_initialize_chat
    \/ cleanup_store
    \/ send_message

Spec == Init /\ [][Next]_vars

\* ------------------------------------------------- the orchestrator app.py
\* The handlers of app.py, each one whole script run: the calls a handler makes
\* on the strategy object are made inside the step, with the outcomes of the
\* remote calls as inputs.  call_vars, the frame of a direct call, is not used.

\* Mutant of TooMany: the limit is not enforced.
TooManyNever(n) == FALSE

\* app.py:125  len(uploaded_files) > 5
TooMany(n) == n > max_files

\* The methods of the two classes that app.py calls for cleanup; calling the
\* other one raises AttributeError.
HasMethod(client, method) ==
    \/ client = "GeminiRAG" /\ method = "cleanup_file"
    \/ client = "FileSearchRAG" /\ method = "cleanup_store"

\* rag_core.py:35-61  how one upload_file call ends, given whether the upload
\* and the status fetches returned and the last status observed: the loop is
\* left with PROCESSING only by the Timeout.
UploadOutcome(uploaded, fetched, state) ==
    IF ~uploaded \/ ~fetched THEN "RemoteError"
    ELSE IF StillProcessing(state) THEN "Timeout"
    ELSE UploadExit(state)

\* rag_core.py:171-199  how one create_and_upload_file call ends.
IndexOutcome(created, uploaded, fetched, operation) ==
    IF ~created \/ ~uploaded \/ ~fetched THEN "RemoteError"
    ELSE IF NotDone(operation) THEN "Timeout"
    ELSE "ok"

\* The ids the remote service assigns to the next k objects, in order.
NewIds(made, k) == [i \in 1..k |-> made + i]
Range(seq) == {seq[i] : i \in 1..Len(seq)}

\* No handler runs after the exit handler.
Running == app_op.name # "exit"

\* What the remote service can do to one upload_file call: whether the
\* upload and the status fetches return, and the last status observed.  A
\* field the call does not come to read is held at one value.
UploadInputs ==
    {[uploaded |-> FALSE, fetched |-> TRUE, state |-> "PROCESSING"],
     [uploaded |-> TRUE, fetched |-> FALSE, state |-> "PROCESSING"]}
    \cup {[uploaded |-> TRUE, fetched |-> TRUE, state |-> st] : st \in FileStates}

\* The same for one create_and_upload_file call.
IndexInputs ==
    {[created |-> FALSE, uploaded |-> FALSE, fetched |-> TRUE, operation |-> "None"],
     [created |-> TRUE, uploaded |-> FALSE, fetched |-> TRUE, operation |-> "None"],
     [created |-> TRUE, uploaded |-> TRUE, fetched |-> FALSE, operation |-> "pending"],
     [created |-> TRUE, uploaded |-> TRUE, fetched |-> TRUE, operation |-> "pending"],
     [created |-> TRUE, uploaded |-> TRUE, fetched |-> TRUE, operation |-> "done"]}

\* Remote objects n calls make when the one numbered fail_at does not return
\* (fail_at = 0: all return) and `last` says whether that one made its object.
Made(n, fail_at, last) ==
    IF fail_at = 0 THEN n ELSE (fail_at - 1) + (IF last THEN 1 ELSE 0)

\* Mutant of ChatDocument: the chat is started with the last file.
ChatDocumentLast(file_objects) == file_objects[Len(file_objects)]

\* app.py:150  file_objects[0], the argument of initialize_chat
ChatDocument(file_objects) == file_objects[1]

\* rag_core.py:76-79, 113-118  the documents a handle refers to: the contents
\* of its cache and the file parts of its history
BoundDocuments(handle) ==
    (Range(handle.cached_contents)
        \cup UNION {Range([j \in 1..Len(handle.history[i].parts) |->
                              handle.history[i].parts[j].file]) :
                       i \in 1..Len(handle.history)}) \ {0}

\* app.py:131, 138-157  the Long Context branch: GeminiRAG(), upload_file for
\* each file, initialize_chat(file_objects[0]), then the session state.  The
\* fallback of initialize_chat (rag_core.py:86-125) runs outside any try: an
\* exception raised there (chat_raised) reaches the handler of app.py:177.
upload_long_context(n, api_key, fail_at, call, cache_created, chat_raised) ==
    LET outcome == IF fail_at # 0
                   THEN UploadOutcome(call.uploaded, call.fetched, call.state)
                   ELSE IF chat_raised THEN "ChatError"
                   ELSE "ok"
        made == Made(n, fail_at, call.uploaded)
        ids == NewIds(files_made, made)
    IN
    /\ fail_at # 0 => (outcome # "ok" /\ cache_created)
    /\ fail_at = 0 => call.state = "ACTIVE"
    /\ chat_raised => (fail_at = 0 /\ ~cache_created)
    /\ files_made + stores_made < MaxEarlierObjects
    /\ rag_client' = "GeminiRAG"
    /\ gemini_rag' = [constructed |-> TRUE, api_key |-> api_key,
                      model_name |-> ModelName(env_model)]
    /\ fs_rag' = NoFileSearch /\ fs_created' = {}
    /\ files_made' = files_made + made
    /\ remote_files' = remote_files \cup Range(ids)
    /\ session' = [session EXCEPT !.files = @ \cup Range(ids),
                                  !.failed = @ \/ outcome # "ok"]
    /\ app_op' = [name |-> "file_upload", result |-> outcome]
    /\ IF fail_at # 0
       THEN /\ chat_inits' = <<>>
            /\ UNCHANGED <<uploaded_files, chat_session>>
       ELSE IF chat_raised
       THEN /\ chat_inits' = <<ChatDocument(ids)>>
            /\ UNCHANGED <<uploaded_files, chat_session>>
       ELSE /\ uploaded_files' = ids
            /\ chat_inits' = <<ChatDocument(ids)>>
            /\ chat_session' = IF cache_created
                               THEN CachedChat(ChatDocument(ids))
                               ELSE FallbackChat(ChatDocument(ids))
    /\ UNCHANGED <<remote_stores, stores_made>>

\* app.py:133, 159-174  the File Search branch: FileSearchRAG(),
\* create_and_upload_file for each file (each call creates a store and binds
\* it to the object), initialize_chat(), then the session state.
upload_file_search(n, api_key, fail_at, call) ==
    LET outcome == IF fail_at = 0 THEN "ok"
                   ELSE IndexOutcome(call.created, call.uploaded, call.fetched,
                                     call.operation)
        made == Made(n, fail_at, call.created)
        ids == NewIds(stores_made, made)
        store == IF made = 0 THEN 0 ELSE ids[made]
    IN
    /\ fail_at # 0 => outcome # "ok"
    /\ fail_at = 0 => call.operation = "done"
    /\ files_made + stores_made < MaxEarlierObjects
    /\ rag_client' = "FileSearchRAG"
    /\ fs_rag' = [constructed |-> TRUE, api_key |-> api_key,
                  model_name |-> ModelName(env_model),
                  file_search_store |-> store,
                  operation |-> IF call.uploaded THEN call.operation
                                ELSE IF fail_at > 1 THEN "done" ELSE "None"]
    /\ fs_created' = Range(ids)
    /\ gemini_rag' = NoGemini
    /\ stores_made' = stores_made + made
    /\ remote_stores' = remote_stores \cup Range(ids)
    /\ session' = [session EXCEPT !.stores = @ \cup Range(ids),
                                  !.failed = @ \/ fail_at # 0]
    /\ IF fail_at # 0
       THEN /\ app_op' = [name |-> "file_upload", result |-> outcome]
            /\ UNCHANGED <<uploaded_files, chat_session>>
       ELSE IF StoreMissing(store)
       THEN /\ app_op' = [name |-> "file_upload", result |-> "PreconditionFailed"]
            /\ UNCHANGED <<uploaded_files, chat_session>>
       ELSE /\ app_op' = [name |-> "file_upload", result |-> "ok"]
            /\ uploaded_files' = ids
            /\ chat_session' = SendMessageHandle(store)
    /\ chat_inits' = <<>>
    /\ UNCHANGED <<remote_files, files_made>>

\* app.py:116-181  the file uploader with n files selected, shown only while
\* no files are active.  Any exception of the try block is caught at 177.
file_upload ==
    /\ Running
    /\ uploaded_files = <<>>
    /\ \E n \in 1..MaxSelected :
        IF TooMany(n)
        THEN /\ app_op' = [name |-> "file_upload", result |-> "TooMany"]
             /\ chat_inits' = <<>>
             /\ UNCHANGED <<gemini_rag, fs_rag, fs_created, remote_vars,
                            rag_client, uploaded_files, chat_session, session>>
        ELSE \E api_key \in ApiKeys :
            IF CredentialAbsent(api_key)
            THEN /\ app_op' = [name |-> "file_upload",
                               result |-> "MissingCredential"]
                 /\ chat_inits' = <<>>
                 /\ UNCHANGED <<gemini_rag, fs_rag, fs_created, remote_vars,
                                rag_client, uploaded_files, chat_session,
                                session>>
            ELSE \E fail_at \in 0..n :
                IF rag_mode = "Long Context"
                THEN \E call \in UploadInputs, cache_created \in BOOLEAN,
                        chat_raised \in BOOLEAN :
                        upload_long_context(n, api_key, fail_at, call,
                                            cache_created, chat_raised)
                ELSE \E call \in IndexInputs :
                        upload_file_search(n, api_key, fail_at, call)
    /\ ended' = NoReset
    /\ UNCHANGED <<tmp_files, call_vars, env_model, rag_mode>>

\* rag_core.py:132-140  how cleanup_file(id) ends for the caller
CleanupFileResult(id, files, failing) ==
    CleanupResult(DeleteRaises(id \in files, id \in failing))

\* app.py:55-57  the files the loop calls cleanup_file for: the loop goes on
\* while the calls return, and is not entered when the client has no such
\* method (AttributeError, caught at line 60).
DeletedFiles(client, uploaded, files, failing) ==
    IF ~HasMethod(client, "cleanup_file") THEN {}
    ELSE {uploaded[i] : i \in
            {k \in 1..Len(uploaded) :
                \A j \in 1..(k - 1) :
                    CleanupFileResult(uploaded[j], files, failing) = "ok"}}

\* app.py:59, rag_core.py:247-248  the store cleanup_store issues a forced
\* delete for
DeletedStores(client, store) ==
    IF HasMethod(client, "cleanup_store") /\ ~StoreMissing(store)
    THEN {store} ELSE {}

\* app.py:34-44, 51-61  the cleanup of cleanup_on_exit and reset_conversation,
\* dispatched on `mode`, the rag_mode at the time of the call.  `failing` are
\* the remote objects whose delete raises although they exist.
Cleanup(by, mode) ==
    LET run == uploaded_files # <<>> /\ rag_client # "None"
        lc == mode = "Long Context"
        store == fs_rag.file_search_store
    IN
    \E failing \in SUBSET (IF ~run THEN {}
                           ELSE IF lc
                           THEN (IF HasMethod(rag_client, "cleanup_file")
                                 THEN Range(uploaded_files) ELSE {})
                           ELSE DeletedStores(rag_client, store)) :
       LET deleted_files ==
               IF run /\ lc
               THEN DeletedFiles(rag_client, uploaded_files, remote_files, failing)
               ELSE {}
           deleted_stores ==
               IF run /\ ~lc THEN DeletedStores(rag_client, store) ELSE {}
       IN
       /\ remote_files' =
             remote_files \ {id \in deleted_files :
                                ~DeleteRaises(id \in remote_files, id \in failing)}
       /\ remote_stores' =
             remote_stores \ {id \in deleted_stores :
                                ~DeleteRaises(id \in remote_stores, id \in failing)}
       /\ ended' = [by |-> by, mode |-> rag_mode, client |-> rag_client,
                    uploaded |-> uploaded_files,
                    files |-> session.files, stores |-> session.stores,
                    failed |-> session.failed,
                    deleted_files |-> deleted_files,
                    deleted_stores |-> deleted_stores]
       /\ session' = NoSession
       /\ app_op' = [name |-> by, result |-> "ok"]
       /\ chat_inits' = <<>>
       /\ Cardinality(failing) <= MaxFailedDeletes
       /\ UNCHANGED <<files_made, stores_made, tmp_files, call_vars, env_model>>

\* Mutant of reset_conversation: the conversation handle is kept.
reset_conversation_keeping_chat(by, mode) ==
    /\ Cleanup(by, mode)
    /\ uploaded_files' = <<>>
    /\ rag_client' = "None"
    /\ gemini_rag' = NoGemini /\ fs_rag' = NoFileSearch /\ fs_created' = {}
    /\ UNCHANGED chat_session

\* app.py:49-67  reset_conversation().  The object rag_client held is dropped.
reset_conversation(by, mode) ==
    /\ Cleanup(by, mode)
    /\ uploaded_files' = <<>>
    /\ chat_session' = NoChat
    /\ rag_client' = "None"
    /\ gemini_rag' = NoGemini /\ fs_rag' = NoFileSearch /\ fs_created' = {}

\* app.py:96-97  the button "Reset Conversation"
reset_button ==
    /\ Running
    /\ reset_conversation("reset_button", rag_mode)
    /\ UNCHANGED rag_mode

\* app.py:83-87  the other mode is selected while files are active, and the
\* change is confirmed: rag_mode is set, then reset_conversation() runs.
mode_change_confirmed ==
    /\ Running
    /\ uploaded_files # <<>>
    /\ \E new_mode \in RagModes \ {rag_mode} :
        /\ rag_mode' = new_mode
        /\ reset_conversation("mode_change_confirmed", rag_mode')

\* app.py:88-89  the other mode is selected while no files are active
mode_change ==
    /\ Running
    /\ uploaded_files = <<>>
    /\ \E new_mode \in RagModes \ {rag_mode} : rag_mode' = new_mode
    /\ app_op' = [name |-> "mode_change", result |-> "ok"]
    /\ ended' = NoReset
    /\ chat_inits' = <<>>
    /\ UNCHANGED <<gemini_rag, fs_rag, fs_created, remote_vars, tmp_files,
                   call_vars, env_model, rag_client, uploaded_files,
                   chat_session, session>>

\* app.py:32-47  cleanup_on_exit(), registered with atexit
cleanup_on_exit ==
    /\ Running
    /\ Cleanup("exit", rag_mode)
    /\ UNCHANGED <<rag_mode, rag_client, uploaded_files, chat_session,
                   gemini_rag, fs_rag, fs_created>>

NextApp ==
    \/ file_upload
    \/ reset_button
    \/ mode_change_confirmed
    \/ mode_change
    \/ cleanup_on_exit

SpecApp == InitApp /\ [][NextApp]_vars

\* The two constructors and the two polling methods.
NextPoll ==
    \/ GeminiRAG_init
    \/ FileSearchRAG_init
    \/ upload_file
    \/ upload_file_loop
    \/ upload_file_sleep
    \/ upload_file_get
    \/ create_and_upload_file
    \/ create_and_upload_file_loop
    \/ create_and_upload_file_sleep
    \/ create_and_upload_file_get

\* A call that has begun goes on: the thread that runs it is not stopped, a
\* sleep returns when its interval has passed and a status fetch comes back
\* (with a status or an error).
SpecLive ==
    /\ Init /\ [][NextPoll]_vars
    /\ WF_vars(upload_file_loop)
    /\ WF_vars(upload_file_sleep)
    /\ WF_vars(upload_file_get)
    /\ WF_vars(create_and_upload_file_loop)
    /\ WF_vars(create_and_upload_file_sleep)
    /\ WF_vars(create_and_upload_file_get)

\* ---------------------------------------------------------------- claims
\* rag_core.py:48, 193  time.time() - start_time
Elapsed == clock - start_time

Uploading == op \in {"upload_file", "create_and_upload_file"}

\* rag_core.py:45, 190  the timeout_seconds of the call in progress
Budget ==
    IF op = "upload_file" THEN upload_timeout_seconds ELSE index_timeout_seconds

\* rag_core.py:50, 195  the sleep of the call in progress
Interval ==
    IF op = "upload_file" THEN upload_sleep_seconds ELSE index_sleep_seconds

\* The call ended and every status it observed was non-terminal: the status
\* the upload returned and the status of every fetch.
NeverTerminal == pc = "done" /\ seen_processing = fetches + 1

\* C1 as stated: no upload call returns success at a moment when the time
\* elapsed since polling began exceeds the budget.
C1_NoSuccessPastBudget ==
    (Uploading /\ pc = "done" /\ result = "ok") => Elapsed <= Budget

\* C1 amended: the budget is checked at the loop head only, while the status
\* is not terminal.  No sleep begins once the elapsed time exceeds the budget,
\* and a call that returns success does so at most one sleep interval plus
\* the latency of its last status fetch after the budget.
C1_BudgetCheckedBeforeEachSleep ==
    Uploading =>
        /\ pc = "sleep" => Elapsed <= Budget
        /\ (pc = "done" /\ result = "ok") =>
               Elapsed <= Budget + Interval + last_latency

\* C1 witness: upload_file returned the ACTIVE file after the budget.
C1_SuccessAfterBudget ==
    /\ op = "upload_file" /\ pc = "done" /\ result = "ok"
    /\ file_obj.state = "ACTIVE"
    /\ Elapsed > upload_timeout_seconds

\* C2: Timeout is raised only when the elapsed time exceeds the budget, and a
\* call whose status never becomes terminal ends with Timeout (so with the
\* elapsed time above the budget).
C2_TimeoutOnlyPastBudget ==
    Uploading =>
        /\ result = "Timeout" => Elapsed > Budget
        /\ NeverTerminal => result = "Timeout"

\* C2 witness: create_and_upload_file timed out one second after its budget,
\* every status having been not done.
C2_TimedOutJustPastBudget ==
    /\ op = "create_and_upload_file" /\ result = "Timeout"
    /\ NeverTerminal
    /\ Elapsed = index_timeout_seconds + 1

\* C3: when upload_file returns success, the number of sleeps and the number
\* of get_file calls both equal the number of PROCESSING statuses observed
\* (the one of the upload call included).
C3_SleepsAndFetchesEqualProcessingSeen ==
    (op = "upload_file" /\ pc = "done" /\ result = "ok") =>
        /\ sleeps = seen_processing
        /\ fetches = seen_processing

\* C3 witness: [PROCESSING, PROCESSING, ACTIVE] gave 2 sleeps and 2 fetches.
C3_TwoProcessingThenActive ==
    /\ op = "upload_file" /\ pc = "done" /\ result = "ok"
    /\ seen_processing = 2 /\ sleeps = 2 /\ fetches = 2

\* C4: once upload_file has observed FAILED it is at the loop head or has
\* ended with ProcessingFailed, and its next step ends the call with
\* ProcessingFailed without another sleep, another fetch or any wait.
C4_FailedEndsPollingAtOnce ==
    /\ [](  (op = "upload_file" /\ file_obj.state = "FAILED") =>
                \/ pc = "loop"
                \/ pc = "done" /\ result = "ProcessingFailed" )
    /\ [][ (op = "upload_file" /\ pc = "loop" /\ file_obj.state = "FAILED") =>
              /\ pc' = "done" /\ result' = "ProcessingFailed"
              /\ sleeps' = sleeps /\ fetches' = fetches /\ clock' = clock ]_vars

\* C4 witness: a fetch observed FAILED after PROCESSING and the call ended
\* with ProcessingFailed well inside the budget.
C4_FailedAfterProcessing ==
    /\ op = "upload_file" /\ pc = "done" /\ result = "ProcessingFailed"
    /\ seen_processing = 2 /\ fetches = 2 /\ sleeps = 2
    /\ Elapsed < upload_timeout_seconds

\* C5: when the cache-creation call of initialize_chat raised, the call
\* returned a handle on the uncached model whose history is the user entry
\* with exactly the document and the model entry with the acknowledgement.
C5_FallbackHistoryOnCacheFailure ==
    (op = "initialize_chat" /\ remote_raised) =>
        /\ result = "ok"
        /\ chat.model = "uncached"
        /\ Len(chat.history) = 2
        /\ chat.history[1].role = "user"
        /\ chat.history[1].parts = <<[file |-> target, text |-> ""]>>
        /\ chat.history[2].role = "model"
        /\ chat.history[2].parts = <<[file |-> 0, text |-> Acknowledgement]>>

\* C5 witness: cache creation raised over a file that exists remotely.
C5_CacheCreationRaised ==
    /\ op = "initialize_chat" /\ remote_raised
    /\ target \in remote_files
    /\ chat.model = "uncached"

\* C6: when the cache-creation call of initialize_chat succeeded, the handle
\* is on the model built from the cache of the document, its history is empty
\* and no uncached model was built.
C6_CachedChatHasEmptyHistory ==
    (op = "initialize_chat" /\ ~remote_raised) =>
        /\ result = "ok"
        /\ chat.model = "cached"
        /\ chat.cached_contents = <<target>>
        /\ chat.history = <<>>
        /\ uncached_models = 0

\* C6 witness: initialize_chat returned a chat on the cached model.
C6_CacheCreated ==
    /\ op = "initialize_chat" /\ ~remote_raised
    /\ chat.model = "cached" /\ net_calls = 1

\* C7: cleanup_file and cleanup_store return normally, whatever the remote
\* delete call did.
C7_CleanupNeverRaises ==
    op \in {"cleanup_file", "cleanup_store"} => result = "ok"

\* C7 witness: cleanup_file on a file that an earlier cleanup had deleted;
\* the delete call raised and the error was logged.
C7_SecondCleanupOfSameFile ==
    /\ op = "cleanup_file" /\ target \in 1..files_made
    /\ target \notin remote_files
    /\ remote_raised /\ errors_logged = 1

\* C8: when no call is in progress, no transient copy exists under /tmp.
C8_NoTransientCopyAfterCall ==
    pc = "done" => tmp_files = {}

\* C8 witness: create_and_upload_file ended by a remote failure during the
\* poll loop, while the transient copy existed.
C8_RemoteFailureWhilePolling ==
    /\ op = "create_and_upload_file" /\ pc = "done"
    /\ result = "RemoteError" /\ fetches >= 1
    /\ tmp_files = {}

\* C9: a constructor called while GOOGLE_API_KEY is unset or empty raises
\* MissingCredential, having configured no client and made no remote call.
C9_MissingCredentialBeforeAnyCall ==
    (op \in {"GeminiRAG", "FileSearchRAG"} /\ env_key \in {"None", ""}) =>
        /\ result = "MissingCredential"
        /\ configure_calls = 0
        /\ net_calls = 0

\* C9 witness: FileSearchRAG() with GOOGLE_API_KEY unset.
C9_ConstructedWithoutCredential ==
    /\ op = "FileSearchRAG" /\ env_key = "None"
    /\ result = "MissingCredential"
    /\ ~fs_rag.constructed

\* C10: FileSearchRAG.initialize_chat on an object none of whose
\* create_and_upload_file calls created a store raises PreconditionFailed,
\* returns no handle and makes no remote call.
C10_InitializeChatNeedsStore ==
    (op = "fs_initialize_chat" /\ fs_created = {}) =>
        /\ result = "PreconditionFailed"
        /\ chat = NoChat
        /\ net_calls = 0

\* C10 witness: initialize_chat on a new FileSearchRAG object, while a store
\* created through an earlier object exists.
C10_NoStoreOnThisObject ==
    /\ op = "fs_initialize_chat" /\ fs_created = {}
    /\ stores_made >= 1
    /\ result = "PreconditionFailed"

\* C11 as stated: every call of the File Search handle whose generate call
\* returned made exactly one generate call, bound to the store of the handle,
\* and gave the caller exactly one chunk, the text of the response, whatever
\* the stream argument.
C11_OneChunkWhateverStream ==
    (op = "send_message" /\ ~remote_raised) =>
        /\ reply.generate_calls = 1
        /\ reply.store = chat.store
        /\ reply.chunks = <<reply.text>>

\* C15: upload_file returns only an ACTIVE file, and when every remote call
\* of it returned, any other end of the call is a raised Timeout,
\* ProcessingFailed or UnexpectedState.
C15_ReturnsOnlyActiveFile ==
    (op = "upload_file" /\ pc = "done") =>
        /\ result = "ok" => (file_obj.state = "ACTIVE" /\ file_obj.name # 0)
        /\ (result # "ok" /\ ~remote_raised) =>
               result \in {"Timeout", "ProcessingFailed", "UnexpectedState"}

\* C15 witness: the upload call itself reported ACTIVE and the file was
\* returned without a fetch.
C15_ActiveAtOnce ==
    /\ op = "upload_file" /\ pc = "done" /\ result = "ok"
    /\ file_obj.state = "ACTIVE" /\ fetches = 0 /\ sleeps = 0

\* C17: an upload that fails after the remote object was created makes no
\* delete call and leaves the object in place: the step that ends the call
\* changes neither the remote files nor the remote stores.
C17_FailureLeavesRemoteObject ==
    /\ []( (op = "upload_file" /\ pc = "done"
              /\ result \in {"Timeout", "ProcessingFailed", "UnexpectedState"}) =>
                 (delete_calls = 0 /\ file_obj.name \in remote_files) )
    /\ []( (op = "create_and_upload_file" /\ pc = "done" /\ result = "Timeout") =>
                 (delete_calls = 0 /\ fs_rag.file_search_store \in remote_stores) )
    /\ [][ (Uploading /\ pc = "loop" /\ pc' = "done") =>
              (remote_files' = remote_files /\ remote_stores' = remote_stores) ]_vars

\* C17 witness: create_and_upload_file timed out and its store exists.
C17_StoreLeftAfterTimeout ==
    /\ op = "create_and_upload_file" /\ pc = "done" /\ result = "Timeout"
    /\ fs_rag.file_search_store \in remote_stores
    /\ delete_calls = 0

\* C19: when the last state upload_file observed is PROCESSING, ACTIVE or
\* FAILED (every earlier one was PROCESSING), the call does not end with
\* UnexpectedState.
C19_NoUnexpectedStateForKnownStates ==
    (op = "upload_file" /\ pc = "done"
        /\ file_obj.name # 0
        /\ file_obj.state \in {"PROCESSING", "ACTIVE", "FAILED"}) =>
            result # "UnexpectedState"

\* C19 witness: the upload call itself reported FAILED; the call ended with
\* ProcessingFailed.
C19_FailedAtUpload ==
    /\ op = "upload_file" /\ pc = "done"
    /\ file_obj.state = "FAILED" /\ fetches = 0
    /\ result = "ProcessingFailed"

\* C16 as stated: with GEMINI_MODEL_NAME not set, a GeminiRAG that was
\* constructed holds the credential it found and the model name
\* "gemini-1.5-pro-002" (test_rag_core.py:21-23).
C16_DefaultModelIsGemini15Pro002 ==
    (op = "GeminiRAG" /\ result = "ok" /\ env_model = "None") =>
        /\ gemini_rag.api_key = env_key
        /\ gemini_rag.model_name = "gemini-1.5-pro-002"

\* The reset that ran last, by the button or at exit, ended a File Search
\* session of one upload, which succeeded.
FileSearchSessionEnded ==
    /\ ended.by \in {"reset_button", "exit"}
    /\ ended.mode = "File Search Tool"
    /\ ended.client = "FileSearchRAG"
    /\ ~ended.failed
    /\ Len(ended.uploaded) \in 1..max_files

\* C12 as stated: a File Search session that uploaded 1 to 5 files and was
\* reset (or exited) created exactly one store, and a forced delete was issued
\* for every store it created.
C12_OneStorePerSessionForceDeleted ==
    FileSearchSessionEnded =>
        /\ Cardinality(ended.stores) = 1
        /\ ended.stores \subseteq ended.deleted_stores

\* C13 as stated: the reset of a confirmed mode change issues a delete-by-name
\* for every uploaded file when the session was in Long Context mode, and a
\* forced delete for a store of the session when it was in File Search mode.
C13_ModeChangeCleansUpByCreator ==
    ended.by = "mode_change_confirmed" =>
        /\ ended.mode = "Long Context" =>
              Range(ended.uploaded) \subseteq ended.deleted_files
        /\ ended.mode = "File Search Tool" =>
              Range(ended.uploaded) \cap ended.deleted_stores # {}

\* C14: uploaded_files never has more than 5 entries, and a step that finds it
\* non-empty leaves it as it is or empties it: an active set is not extended
\* or replaced without a reset.
C14_AtMostFiveAndNoExtension ==
    /\ [](Len(uploaded_files) <= 5)
    /\ [][uploaded_files # <<>> => uploaded_files' \in {uploaded_files, <<>>}]_vars

\* C14 witness: an upload of five files was accepted.
C14_FiveFilesActive ==
    /\ app_op = [name |-> "file_upload", result |-> "ok"]
    /\ Len(uploaded_files) = 5

\* C18 as stated, for the case it names: once the reset button or the exit
\* handler has ended a session in which an upload failed part-way, a delete
\* has been issued for every file and store the session created.
C18_NoRemoteObjectOutlivesReset ==
    (ended.by \in {"reset_button", "exit"} /\ ended.failed) =>
        /\ ended.files \subseteq ended.deleted_files
        /\ ended.stores \subseteq ended.deleted_stores

\* C20: a reset by the button in Long Context mode issues a delete-by-name for
\* each uploaded file, whichever of the deletes raise.
C20_ResetDeletesEveryUploadedFile ==
    (ended.by = "reset_button" /\ ended.mode = "Long Context"
        /\ ended.client = "GeminiRAG") =>
            Range(ended.uploaded) \subseteq ended.deleted_files

\* C20 witness: two files were uploaded, the delete of the first raised and
\* left the file in place, and the second was deleted.
C20_FirstDeleteRaisedSecondIssued ==
    /\ ended.by = "reset_button" /\ ended.mode = "Long Context"
    /\ Len(ended.uploaded) = 2
    /\ ended.uploaded[1] \in remote_files
    /\ ended.uploaded[2] \in ended.deleted_files
    /\ ended.uploaded[2] \notin remote_files

C22_PollingEndsWithinBound ==
    /\ [](op = "upload_file" => (sleeps <= 31 /\ fetches <= 31))
    /\ [](op = "create_and_upload_file" => (sleeps <= 25 /\ fetches <= 25))
    /\ ((Uploading /\ pc # "done") ~> (Uploading /\ pc = "done"))

\* C22 witness: upload_file slept and fetched 31 times, each fetch reported
\* PROCESSING, and the call ended with Timeout.
C22_ThirtyOneSleepsThenTimeout ==
    /\ op = "upload_file" /\ pc = "done" /\ result = "Timeout"
    /\ sleeps = 31 /\ fetches = 31

\* C23: between handlers chat_session is set exactly when uploaded_files is
\* non-empty, and then rag_client is set; an upload that failed (in a call of
\* the strategy or in initialize_chat) leaves both unset, and a reset leaves
\* both unset whatever its cleanup did.
C23_HandleExactlyWhenFilesActive ==
    /\ (chat_session # NoChat) <=> (uploaded_files # <<>>)
    /\ uploaded_files # <<>> => rag_client # "None"
    /\ (app_op.name = "file_upload" /\ app_op.result # "ok") =>
          (chat_session = NoChat /\ uploaded_files = <<>>)
    /\ ended.by \in {"reset_button", "mode_change_confirmed"} =>
          (chat_session = NoChat /\ uploaded_files = <<>>)

\* C23 witness: a reset by the button in File Search mode whose forced delete
\* raised and left the store in place; handle and files are unset.
C23_ResetAfterFailedStoreDelete ==
    /\ ended.by = "reset_button" /\ ended.mode = "File Search Tool"
    /\ ended.deleted_stores \cap remote_stores # {}
    /\ chat_session = NoChat /\ uploaded_files = <<>>

\* C24 as stated: FileSearchRAG.initialize_chat returns a handle only when
\* the indexing operation of the object, the one of the most recent
\* create_and_upload_file call that uploaded, has reached done.
C24_HandleOnlyForIndexedStore ==
    (op = "fs_initialize_chat" /\ result = "ok") => fs_rag.operation = "done"

====
